---- MODULE Spec2Model ----
(***************************************************************************)
(* Model of the RAG notebook rag-azure-openai-cosmosdb-notebook.ipynb:     *)
(*   - upsert_data_to_memory_store (the ingestion loop, cell 5),           *)
(*   - the streaming chat loop (cell 22),                                  *)
(*   - the chat loop with chat_history (cells 25 and 26).                  *)
(* The memory store, the embedding service and the chat service are the    *)
(* environment: each await is one step whose outcome (a value or a raised  *)
(* exception) the environment chooses.                                     *)
(***************************************************************************)
EXTENDS Integers, Sequences, FiniteSets, TLC

\* Longest data file (number of records) of a run of the ingestion loop.
MaxBatch == 3
\* Longest data file when two kernels run the ingestion loop concurrently.
MaxConcBatch == 1
\* The most queries entered on one ChatHistory.
MaxQueries == 3
\* The most queries entered when interrupts of the event loop are followed.
MaxKernelQueries == 1
\* The most coroutines left suspended by interrupts of the event loop.
MaxDetached == 2

\* The kernels that may run upsert_data_to_memory_store on the collection.
Procs == {1, 2}

\* The records a data file is made of: id "1" comes in two versions.
Pool ==
  { [id |-> "1", title |-> "T1",  content |-> "C1"],
    [id |-> "1", title |-> "T1b", content |-> "C1b"],
    [id |-> "2", title |-> "T2",  content |-> "C2"],
    [id |-> "3", title |-> "T3",  content |-> "C3"] }

Ids == {r.id : r \in Pool}

\* json.load(f): every data file of at most k records.
Batches(k) == UNION {[1..m -> Pool] : m \in 0..k}

VARIABLES
  store,            \* the collection: a set of stored items
  data,             \* data[p]: the list json.load returned
  n,                \* n[p]: the loop counter
  pc,               \* pc[p]: the await the run is suspended at, or how it ended
  already_created,  \* already_created[p]
  err,              \* err[p]: the exception that left the function, or "none"
  report,           \* report[p]: what the run printed, one entry per record
  calls,            \* calls[p]: the external calls the run issued, in order
  lookups,          \* lookups[p]: what store.get did for each record looked up
  changed,          \* changed[p]: a write of the run changed the collection
  rerun,            \* rerun[p]: whether the run follows a run of the cell on
                    \* the same data, and how many records that run handled
  detached,         \* detached[p]: the cell that made the call was ended by an
                    \* interrupt while the run stays suspended in the event loop
  chat_history,     \* the ChatHistory: a sequence of [role, content]
  query_term,       \* what input() returned last
  search_result,    \* what memory.search returned last
  completions_result, \* the answer (history loop) or what the stream still
                    \* holds (streaming loop)
  mode,             \* the chat loop that runs or ran last: "stream",
                    \* "history", "none"
  cpc,              \* where the code of the chat cell that runs waits
  cerr,             \* cerr[cell]: the exception that ended the cell last
  searched,         \* memory.search has returned for query_term
  invoked,          \* the chat service was invoked for query_term
  printed,          \* the fragments printed for query_term
  answered,         \* the answer calls on chat_history that succeeded
  failed,           \* the number of answer calls on chat_history that failed
  asked,            \* the number of queries entered since chat_history was made
  result,           \* what memory.search returned in the single-query cell
  once,             \* the last kernel.invoke(chat_function, ...): its
                    \* arguments and the text it returned (none: <<>>)
  imported,         \* KernelArguments is imported (cell 19 has been run)
  args,             \* the arguments of the chat call the cell's code waits
                    \* for (none: <<>>)
  gen,              \* what the stream the loop iterates still holds
  held,             \* completions_result is the stream the loop iterates
  susp,             \* the coroutines that are suspended in the event loop
                    \* while another one runs, or none: their Frames
  orphaned          \* the coroutine whose code is at cpc was left behind by
                    \* its cell, which an interrupt of the event loop ended

ingestVars == <<store, data, n, pc, already_created, err, report, calls,
                lookups, changed, rerun, detached>>

chatVars == <<chat_history, query_term, search_result, completions_result,
              mode, cpc, cerr, searched, invoked, printed, answered, failed,
              asked, result, once, imported, args, gen, held, susp,
              orphaned>>

vars == <<ingestVars, chatVars>>

----------------------------------------------------------------------------
(* The memory store and memory.save_information *)

HasId(s, id) == \E it \in s : it.id = id

ItemsOf(s, id) == {it \in s : it.id = id}

\* The embedding the service returns for a text.
Embed(text) == <<"vec", text>>

\* Variant: text and description passed the wrong way round.
Item_Swapped(rec) ==
  [id |-> rec.id, text |-> rec.title, description |-> rec.content,
   embedding |-> Embed(rec.title)]

\* The item save_information writes for a record: id, text=content,
\* description=title and the embedding of the text.
Item(rec) ==
  [id |-> rec.id, text |-> rec.content, description |-> rec.title,
   embedding |-> Embed(rec.content)]

\* Variant: a lookup under the wrong key, which never finds anything.
Found_Never(s, id) == FALSE

\* store.get(collection_name, id, with_embedding=True) finds an item.
Found(s, id) == HasId(s, id)

\* The store's upsert: the item replaces whatever the collection holds under
\* its id.
StoreUpsert(s, item) == {x \in s : x.id # item.id} \cup {item}

----------------------------------------------------------------------------
(* upsert_data_to_memory_store *)

Call(op, k) == [op |-> op, n |-> k]

\* Variant: the index printed is the one before `n += 1`.
Printed_ZeroBased(kind, k, total) ==
  [outcome |-> kind, n |-> k - 1, total |-> total]

\* What print(...) shows for a record: the outcome, n and len(data).
Printed(kind, k, total) == [outcome |-> kind, n |-> k, total |-> total]

\* The end of an iteration of `for item in data`: the next item's lookup is
\* issued, or the function returns.
Advance(p) ==
  IF n[p] < Len(data[p])
  THEN /\ n' = [n EXCEPT ![p] = n[p] + 1]
       /\ pc' = [pc EXCEPT ![p] = "get"]
       /\ calls' = [calls EXCEPT ![p] = Append(calls[p], Call("get", n[p] + 1))]
  ELSE /\ pc' = [pc EXCEPT ![p] = "done"]
       /\ UNCHANGED <<n, calls>>

\* Variant: save_information called whatever already_created is.
Branch_AlwaysSave(p, ac) ==
  /\ already_created' = [already_created EXCEPT ![p] = ac]
  /\ pc' = [pc EXCEPT ![p] = "embed"]
  /\ calls' = [calls EXCEPT ![p] = Append(calls[p], Call("embed", n[p]))]
  /\ UNCHANGED <<n, report>>

\* `if not already_created: await memory.save_information(...)  else: print`
Branch(p, ac) ==
  /\ already_created' = [already_created EXCEPT ![p] = ac]
  /\ IF ac
     THEN /\ report' = [report EXCEPT ![p] =
                 Append(report[p], Printed("skipped", n[p], Len(data[p])))]
          /\ Advance(p)
     ELSE /\ pc' = [pc EXCEPT ![p] = "embed"]
          /\ calls' = [calls EXCEPT ![p] = Append(calls[p], Call("embed", n[p]))]
          /\ UNCHANGED <<n, report>>

\* The run does not follow a run on the same data.
FirstRun == [again |-> FALSE, handled |-> 0]

\* The function is called on a file holding d: the file is read, n = 0, and
\* the loop starts. `before` tells what run of the cell came before.
Begin(p, d, before) ==
  /\ data' = [data EXCEPT ![p] = d]
  /\ rerun' = [rerun EXCEPT ![p] = before]
  /\ IF d = <<>>
     THEN /\ n' = [n EXCEPT ![p] = 0]
          /\ pc' = [pc EXCEPT ![p] = "done"]
          /\ calls' = [calls EXCEPT ![p] = <<>>]
     ELSE /\ n' = [n EXCEPT ![p] = 1]
          /\ pc' = [pc EXCEPT ![p] = "get"]
          /\ calls' = [calls EXCEPT ![p] = <<Call("get", 1)>>]
  /\ report' = [report EXCEPT ![p] = <<>>]
  /\ lookups' = [lookups EXCEPT ![p] = <<>>]
  /\ err' = [err EXCEPT ![p] = "none"]
  /\ already_created' = [already_created EXCEPT ![p] = FALSE]
  /\ changed' = [changed EXCEPT ![p] = FALSE]
  /\ detached' = [detached EXCEPT ![p] = FALSE]
  /\ UNCHANGED store
  /\ UNCHANGED chatVars

\* The cell is run on some data file.
Start(p, B) ==
  /\ pc[p] = "idle"
  /\ \E d \in B : Begin(p, d, FirstRun)

\* The run is over (the function returned, or an exception left it) and the
\* cell is run again on the same file.
Rerun(p) ==
  /\ pc[p] \in {"done", "failed"}
  /\ Begin(p, data[p], [again |-> TRUE, handled |-> Len(report[p])])

\* The call is over (the function returned, or its exception ended the
\* cell): its locals are gone.
Return(p) ==
  /\ pc[p] \in {"done", "failed"}
  /\ pc' = [pc EXCEPT ![p] = "idle"]
  /\ data' = [data EXCEPT ![p] = <<>>]
  /\ n' = [n EXCEPT ![p] = 0]
  /\ already_created' = [already_created EXCEPT ![p] = FALSE]
  /\ err' = [err EXCEPT ![p] = "none"]
  /\ report' = [report EXCEPT ![p] = <<>>]
  /\ calls' = [calls EXCEPT ![p] = <<>>]
  /\ lookups' = [lookups EXCEPT ![p] = <<>>]
  /\ changed' = [changed EXCEPT ![p] = FALSE]
  /\ rerun' = [rerun EXCEPT ![p] = FirstRun]
  /\ detached' = [detached EXCEPT ![p] = FALSE]
  /\ UNCHANGED store
  /\ UNCHANGED chatVars

\* store.get answers: the item (bool(item) is True), or the id is not there
\* (it throws, or returns None) and already_created is False.
GetReturns(p) ==
  /\ pc[p] = "get"
  /\ LET found == Found(store, data[p][n[p]].id)
     IN  /\ lookups' = [lookups EXCEPT ![p] = Append(lookups[p],
                 [present |-> HasId(store, data[p][n[p]].id),
                  outcome |-> IF found THEN "found" ELSE "notfound"])]
         /\ Branch(p, found)
  /\ UNCHANGED <<store, data, err, changed, rerun, detached>>
  /\ UNCHANGED chatVars

\* Variant: no try/except around store.get, its exception ends the function.
GetFails_Aborts(p) ==
  /\ pc[p] = "get"
  /\ lookups' = [lookups EXCEPT ![p] = Append(lookups[p],
         [present |-> HasId(store, data[p][n[p]].id), outcome |-> "error"])]
  /\ pc' = [pc EXCEPT ![p] = "failed"]
  /\ err' = [err EXCEPT ![p] = "LookupError"]
  /\ UNCHANGED <<store, data, n, already_created, report, calls, changed,
                 rerun, detached>>
  /\ UNCHANGED chatVars

\* store.get raises for a store-side reason: `except Exception` makes
\* already_created False.
GetFails(p) ==
  /\ pc[p] = "get"
  /\ lookups' = [lookups EXCEPT ![p] = Append(lookups[p],
         [present |-> HasId(store, data[p][n[p]].id), outcome |-> "error"])]
  /\ Branch(p, FALSE)
  /\ UNCHANGED <<store, data, err, changed, rerun, detached>>
  /\ UNCHANGED chatVars

\* Variant: the write is started as a task and not awaited; the loop goes on.
EmbedReturns_WriteNotAwaited(p) ==
  /\ pc[p] = "embed"
  /\ IF n[p] < Len(data[p])
     THEN /\ n' = [n EXCEPT ![p] = n[p] + 1]
          /\ pc' = [pc EXCEPT ![p] = "get"]
          /\ calls' = [calls EXCEPT ![p] =
                 calls[p] \o <<Call("upsert", n[p]), Call("get", n[p] + 1)>>]
     ELSE /\ pc' = [pc EXCEPT ![p] = "done"]
          /\ calls' = [calls EXCEPT ![p] = Append(calls[p], Call("upsert", n[p]))]
          /\ UNCHANGED n
  /\ UNCHANGED <<store, data, already_created, err, report, lookups,
                 changed, rerun, detached>>
  /\ UNCHANGED chatVars

\* save_information: the embedding service answered, the write is issued.
EmbedReturns(p) ==
  /\ pc[p] = "embed"
  /\ pc' = [pc EXCEPT ![p] = "upsert"]
  /\ calls' = [calls EXCEPT ![p] = Append(calls[p], Call("upsert", n[p]))]
  /\ UNCHANGED <<store, data, n, already_created, err, report, lookups,
                 changed, rerun, detached>>
  /\ UNCHANGED chatVars

\* An exception of save_information is not caught: it leaves the function.
Raise(p, e) ==
  /\ pc' = [pc EXCEPT ![p] = "failed"]
  /\ err' = [err EXCEPT ![p] = e]
  /\ UNCHANGED <<store, data, n, already_created, report, calls, lookups,
                 changed, rerun, detached>>
  /\ UNCHANGED chatVars

\* Variant: the exception of save_information is caught and the loop goes on.
EmbedFails_Continues(p) ==
  /\ pc[p] = "embed"
  /\ err' = [err EXCEPT ![p] = "EmbeddingServiceError"]
  /\ Advance(p)
  /\ UNCHANGED <<store, data, already_created, report, lookups, changed,
                 rerun, detached>>
  /\ UNCHANGED chatVars

EmbedFails(p) ==
  /\ pc[p] = "embed"
  /\ Raise(p, "EmbeddingServiceError")

\* Variant: the item is written to another collection than the one looked up.
UpsertAcks_OtherCollection(p) ==
  /\ pc[p] = "upsert"
  /\ report' = [report EXCEPT ![p] =
         Append(report[p], Printed("created", n[p], Len(data[p])))]
  /\ Advance(p)
  /\ UNCHANGED <<store, data, already_created, err, lookups, changed, rerun,
                 detached>>
  /\ UNCHANGED chatVars

\* save_information: the store acknowledged the write; the function prints
\* and goes on to the next item.
UpsertAcks(p) ==
  /\ pc[p] = "upsert"
  /\ store' = StoreUpsert(store, Item(data[p][n[p]]))
  /\ report' = [report EXCEPT ![p] =
         Append(report[p], Printed("created", n[p], Len(data[p])))]
  /\ changed' = [changed EXCEPT ![p] = changed[p] \/ store' # store]
  /\ Advance(p)
  /\ UNCHANGED <<data, already_created, err, lookups, rerun, detached>>
  /\ UNCHANGED chatVars

UpsertFails(p) ==
  /\ pc[p] = "upsert"
  /\ Raise(p, "StoreWriteError")

\* The exceptions that are not an Exception: the task awaiting was cancelled,
\* or the kernel was interrupted.
Interrupts == {"CancelledError", "KeyboardInterrupt"}

\* The await the run is suspended at (store.get, or the embedding or the
\* write of save_information) raises an interrupt inside the function (the
\* task was cancelled, or the interrupt came while the awaited call was
\* executing): `except Exception` does not catch it, at the lookup either,
\* and it leaves the function. A write that was issued may have reached the
\* store or not.
Interrupted(p) ==
  /\ pc[p] \in {"get", "embed", "upsert"}
  /\ \E e \in Interrupts :
       /\ pc' = [pc EXCEPT ![p] = "failed"]
       /\ err' = [err EXCEPT ![p] = e]
  /\ store' \in IF pc[p] = "upsert"
                THEN {store, StoreUpsert(store, Item(data[p][n[p]]))}
                ELSE {store}
  /\ changed' = [changed EXCEPT ![p] = changed[p] \/ store' # store]
  /\ UNCHANGED <<data, n, already_created, report, calls, lookups, rerun,
                 detached>>
  /\ UNCHANGED chatVars

\* The kernel is interrupted while the run is suspended at an await and the
\* event loop is waiting: KeyboardInterrupt is raised in the event loop, not
\* in the function. The cell ends, the run stays suspended where it is and
\* goes on whenever the event loop runs again.
CellInterrupted(p) ==
  /\ pc[p] \in {"get", "embed", "upsert"}
  /\ ~detached[p]
  /\ detached' = [detached EXCEPT ![p] = TRUE]
  /\ UNCHANGED <<store, data, n, pc, already_created, err, report, calls,
                 lookups, changed, rerun>>
  /\ UNCHANGED chatVars

----------------------------------------------------------------------------
(* The chat loops *)

\* chat_history.add_system_message(...) of cell 25.
SystemMessage ==
  "You are a helpful chatbot who is good about giving movie recommendations."

\* What input() may return besides "exit".
Queries == {"Hey", "thanks, bye!"}

\* The loops: the streaming one (cell 22) and the one with history (cell 26).
Loops == {"stream", "history"}

\* What a name of the notebook holds that no cell has assigned yet: reading
\* it raises NameError.
Unbound == "<unbound>"

Message(role, content) == [role |-> role, content |-> content]

add_system_message(h, t) == Append(h, Message("system", t))

add_user_message(h, t) == Append(h, Message("user", t))

\* Variant: the answer is not added.
add_assistant_message_Dropped(h, t) == h

add_assistant_message(h, t) == Append(h, Message("assistant", t))

\* The result memory.search builds from a stored item; additional_metadata
\* is the full record.
SearchHit(it) ==
  [text |-> it.text,
   additional_metadata |-> [text |-> it.text, description |-> it.description]]

\* The lists memory.search(collection_name, query_term) may return: at most
\* one result, none when the collection is empty or nothing is relevant.
SearchResults(s) == {<<>>} \cup {<<SearchHit(it)>> : it \in s}

\* KernelArguments(query_term=..., db_record=search_result[0].additional_metadata)
KernelArguments(q, res) ==
  [query_term |-> q, db_record |-> res[1].additional_metadata]

\* The fragments the chat service produces for the rendered prompt.
ChatFragments(a) == <<a.db_record.description, ": ", a.query_term>>

\* The fragments put together, in order.
RECURSIVE Concat(_)
Concat(fs) == IF fs = <<>> THEN "" ELSE Head(fs) \o Concat(Tail(fs))

\* The cells besides the loops: the single-query search (cell 13) and the
\* single kernel.invoke (cell 19).
Cells == {"search_cell", "invoke_cell"}

\* Where a chat cell is suspended at an await, the event loop running.
Awaits == {"search", "stream", "invoke", "cell_search", "cell_invoke"}

\* What the coroutine of a chat cell keeps while it is suspended: the loop
\* it runs, where it waits, the call it made, what was done for its query,
\* and whether a cell waits for it (c).
Frame(c) ==
  [mode |-> mode, cpc |-> cpc, args |-> args, gen |-> gen, held |-> held,
   searched |-> searched, invoked |-> invoked, printed |-> printed,
   cell |-> c]

\* No cell is running: a cell may be run.
KernelFree == cpc = "idle" /\ \A i \in DOMAIN susp : ~susp[i].cell

\* completions_result is assigned: it is no longer the stream a suspended
\* coroutine iterates.
Released(s) == [i \in DOMAIN s |-> [s[i] EXCEPT !.held = FALSE]]

\* The cell whose code waits at the place `at`, in the loop m if in a loop.
CellAt(m, at) ==
  IF at = "cell_search" THEN "search_cell"
  ELSE IF at = "cell_invoke" THEN "invoke_cell" ELSE m

\* The cell whose code waits at cpc.
CellOf == CellAt(mode, cpc)

\* What cerr is once the code at cpc, of the cell c, has ended with the
\* exception e. The exception ends the cell when the code is the running
\* cell's. In a coroutine left behind, whatever the exception
\* (KeyboardInterrupt too), it ends that coroutine only: its traceback is
\* shown, no cell sees it and the running cell stays at its await.
Uncaught(c, e) == IF orphaned THEN cerr ELSE [cerr EXCEPT ![c] = e]

\* The exception leaves the loop's code; a call on chat_history (the query
\* was added, the search or kernel.invoke is awaited) that ends so is a
\* failed answer call.
Fail(m, e) ==
  /\ cpc' = "idle"
  /\ cerr' = Uncaught(m, e)
  /\ failed' = IF m = "history" /\ cpc \in {"search", "invoke"}
               THEN failed + 1 ELSE failed

\* Cell 25: chat_history = ChatHistory(); add_system_message(...)
NewHistory ==
  /\ KernelFree
  /\ chat_history' = add_system_message(<<>>, SystemMessage)
  /\ answered' = <<>>
  /\ failed' = 0
  /\ asked' = 0
  /\ UNCHANGED <<query_term, search_result, completions_result, mode, cpc,
                 cerr, searched, invoked, printed>>
  /\ UNCHANGED <<ingestVars, result, once, imported, args, gen, held, susp,
                 orphaned>>

\* The three assignments before `while query_term != "exit"`.
StartLoop(m) ==
  /\ KernelFree
  /\ mode' = m
  /\ query_term' = ""
  /\ search_result' = ""
  /\ completions_result' = ""
  /\ susp' = Released(susp)
  /\ cpc' = "input"
  /\ cerr' = [cerr EXCEPT ![m] = "none"]
  /\ searched' = FALSE
  /\ invoked' = FALSE
  /\ printed' = <<>>
  /\ orphaned' = FALSE
  /\ UNCHANGED <<chat_history, answered, failed, asked>>
  /\ UNCHANGED <<ingestVars, result, once, imported, args, gen, held>>

StartStreamLoop == StartLoop("stream")

StartHistoryLoop == StartLoop("history")

\* Variant: the input is added to chat_history before it is compared to "exit".
EnterExit_AfterAppend(m) ==
  /\ mode = m /\ cpc = "input"
  /\ query_term' = "exit"
  /\ chat_history' = add_user_message(chat_history, "exit")
  /\ cpc' = "idle"
  /\ UNCHANGED <<search_result, completions_result, mode, cerr,
                 searched, invoked, printed, answered, failed, asked>>
  /\ UNCHANGED <<ingestVars, result, once, imported, args, gen, held, susp,
                 orphaned>>

\* input() returns "exit": break.
EnterExit(m) ==
  /\ mode = m /\ cpc = "input"
  /\ query_term' = "exit"
  /\ cpc' = "idle"
  /\ UNCHANGED <<chat_history, search_result, completions_result, mode, cerr,
                 searched, invoked, printed, answered, failed, asked>>
  /\ UNCHANGED <<ingestVars, result, once, imported, args, gen, held, susp,
                 orphaned>>

StreamEnterExit == EnterExit("stream")

HistEnterExit == EnterExit("history")

\* Streaming loop: input() returns a query; memory.search is awaited.
StreamEnter(q) ==
  /\ mode = "stream" /\ cpc = "input" /\ asked < MaxQueries
  /\ query_term' = q
  /\ asked' = asked + 1
  /\ cpc' = "search"
  /\ searched' = FALSE /\ invoked' = FALSE /\ printed' = <<>>
  /\ UNCHANGED <<chat_history, search_result, completions_result, mode, cerr,
                 answered, failed>>
  /\ UNCHANGED <<ingestVars, result, once, imported, args, gen, held, susp,
                 orphaned>>

\* Variant: the search is issued first, the query is not yet in chat_history.
HistEnter_SearchFirst(q) ==
  /\ mode = "history" /\ cpc = "input" /\ asked < MaxQueries
  /\ query_term' = q
  /\ asked' = asked + 1
  /\ cpc' = "search"
  /\ searched' = FALSE /\ invoked' = FALSE /\ printed' = <<>>
  /\ UNCHANGED <<chat_history, search_result, completions_result, mode, cerr,
                 answered, failed>>
  /\ UNCHANGED <<ingestVars, result, once, imported, args, gen, held, susp,
                 orphaned>>

\* History loop: input() returns a query; it is added to chat_history, then
\* memory.search is awaited.
HistEnter(q) ==
  /\ mode = "history" /\ cpc = "input" /\ asked < MaxQueries
  /\ query_term' = q
  /\ asked' = asked + 1
  /\ chat_history' = add_user_message(chat_history, q)
  /\ cpc' = "search"
  /\ searched' = FALSE /\ invoked' = FALSE /\ printed' = <<>>
  /\ UNCHANGED <<search_result, completions_result, mode, cerr, answered,
                 failed>>
  /\ UNCHANGED <<ingestVars, result, once, imported, args, gen, held, susp,
                 orphaned>>

\* Streaming loop: memory.search returns. Evaluating KernelArguments(...)
\* raises NameError when the name was never imported (the import is in cell
\* 19) and search_result[0] raises IndexError on an empty list; otherwise the
\* stream is made, the question printed and the first fragment awaited.
StreamSearchReturns ==
  /\ mode = "stream" /\ cpc = "search"
  /\ \E res \in SearchResults(store) :
       /\ search_result' = res
       /\ searched' = TRUE
       /\ IF ~imported \/ Len(res) = 0
          THEN /\ Fail("stream", IF imported THEN "IndexError" ELSE "NameError")
               /\ UNCHANGED <<completions_result, invoked, args, gen, held,
                              susp>>
          ELSE /\ args' = <<KernelArguments(query_term, res)>>
               /\ completions_result' = ChatFragments(args'[1])
               /\ gen' = ChatFragments(args'[1])
               /\ held' = TRUE
               /\ susp' = Released(susp)
               /\ invoked' = TRUE
               /\ cpc' = "stream"
               /\ UNCHANGED <<cerr, failed>>
  /\ UNCHANGED <<chat_history, query_term, mode, printed, answered, asked>>
  /\ UNCHANGED <<ingestVars, result, once, imported, orphaned>>

\* Variant: kernel.invoke is called without looking at search_result[0].
HistSearchReturns_Ungrounded ==
  /\ mode = "history" /\ cpc = "search"
  /\ \E res \in SearchResults(store) :
       /\ search_result' = res
       /\ searched' = TRUE
       /\ invoked' = TRUE
       /\ args' = IF Len(res) = 0
                  THEN <<[query_term |-> query_term,
                          db_record |-> [text |-> "", description |-> ""]]>>
                  ELSE <<KernelArguments(query_term, res)>>
       /\ cpc' = "invoke"
       /\ UNCHANGED <<cerr, failed>>
  /\ UNCHANGED <<chat_history, query_term, completions_result, mode, printed,
                 answered, asked>>
  /\ UNCHANGED <<ingestVars, result, once, imported, gen, held, susp, orphaned>>

\* History loop: memory.search returns. Evaluating KernelArguments(...)
\* raises NameError when the name was never imported and search_result[0]
\* raises IndexError on an empty list; otherwise kernel.invoke is called with
\* the arguments and awaited.
HistSearchReturns ==
  /\ mode = "history" /\ cpc = "search"
  /\ \E res \in SearchResults(store) :
       /\ search_result' = res
       /\ searched' = TRUE
       /\ IF ~imported \/ Len(res) = 0
          THEN /\ Fail("history", IF imported THEN "IndexError" ELSE "NameError")
               /\ UNCHANGED <<invoked, args>>
          ELSE /\ args' = <<KernelArguments(query_term, res)>>
               /\ invoked' = TRUE
               /\ cpc' = "invoke"
               /\ UNCHANGED <<cerr, failed>>
  /\ UNCHANGED <<chat_history, query_term, completions_result, mode, printed,
                 answered, asked>>
  /\ UNCHANGED <<ingestVars, result, once, imported, gen, held, susp, orphaned>>

\* Variant: on an exception the loop with history takes the query back out
\* of chat_history.
Raises_RollsBack(m, at, e) ==
  /\ mode = m /\ cpc = at
  /\ Fail(m, e)
  /\ args' = <<>> /\ gen' = <<>> /\ held' = FALSE
  /\ chat_history' = IF m = "history"
                     THEN SubSeq(chat_history, 1, Len(chat_history) - 1)
                     ELSE chat_history
  /\ UNCHANGED <<query_term, search_result, completions_result,
                 mode, searched, invoked, printed, answered, asked>>
  /\ UNCHANGED <<ingestVars, result, once, imported, orphaned, susp>>

\* A call of the loop raises (input() or time.sleep is interrupted, the
\* service failed, or an exception is thrown into the await): the exception
\* ends the cell's code.
Raises(m, at, e) ==
  /\ mode = m /\ cpc = at
  /\ Fail(m, e)
  /\ args' = <<>> /\ gen' = <<>> /\ held' = FALSE
  /\ UNCHANGED <<chat_history, query_term, search_result, completions_result,
                 mode, searched, invoked, printed, answered, asked>>
  /\ UNCHANGED <<ingestVars, result, once, imported, orphaned, susp>>

StreamSearchFails == Raises("stream", "search", "SearchError")

HistSearchFails == Raises("history", "search", "SearchError")

StreamFails == Raises("stream", "stream", "ChatServiceError")

HistInvokeFails == Raises("history", "invoke", "ChatServiceError")

\* input() of the streaming loop finds its input closed: EOFError.
StreamInputFails == Raises("stream", "input", "EOFError")

\* input() of the loop with history finds its input closed: EOFError.
HistInputFails == Raises("history", "input", "EOFError")

\* The streaming cell is interrupted in its own code: KeyboardInterrupt in
\* the blocking input() or time.sleep(5); at `await memory.search` or in the
\* `async for`, the task is cancelled or the interrupt comes while the
\* awaited call is executing.
StreamCancel ==
  \/ \E at \in {"input", "sleep"} : Raises("stream", at, "KeyboardInterrupt")
  \/ \E at \in {"search", "stream"} :
       \E e \in Interrupts : Raises("stream", at, e)

\* The cell of the loop with history is interrupted in its own code:
\* KeyboardInterrupt in the blocking input() or time.sleep(5); at `await
\* memory.search` or `await kernel.invoke`, the task is cancelled or the
\* interrupt comes while the awaited call is executing.
HistCancel ==
  \/ \E at \in {"input", "sleep"} : Raises("history", at, "KeyboardInterrupt")
  \/ \E at \in {"search", "invoke"} :
       \E e \in Interrupts : Raises("history", at, e)

\* `async for completion in completions_result: print(str(completion[0]))`:
\* the stream the loop iterates yields its next fragment. Once another cell
\* has assigned completions_result, the name is no longer that stream.
StreamNext ==
  /\ mode = "stream" /\ cpc = "stream"
  /\ Len(gen) > 0
  /\ printed' = Append(printed, Head(gen))
  /\ gen' = Tail(gen)
  /\ completions_result' = IF held THEN Tail(gen) ELSE completions_result
  /\ UNCHANGED <<chat_history, query_term, search_result, mode, cpc, cerr,
                 searched, invoked, answered, failed, asked>>
  /\ UNCHANGED <<ingestVars, result, once, imported, args, held, susp,
                 orphaned>>

\* The stream is exhausted: print("\n"), then time.sleep(5).
StreamEnds ==
  /\ mode = "stream" /\ cpc = "stream"
  /\ Len(gen) = 0
  /\ cpc' = "sleep"
  /\ args' = <<>> /\ held' = FALSE
  /\ UNCHANGED <<chat_history, query_term, search_result, completions_result,
                 mode, cerr, searched, invoked, printed, answered, failed,
                 asked>>
  /\ UNCHANGED <<ingestVars, result, once, imported, gen, susp, orphaned>>

\* kernel.invoke returns the chat service's text for the arguments it was
\* called with: the answer is added to chat_history and printed, then
\* time.sleep(5).
HistInvokeReturns ==
  /\ mode = "history" /\ cpc = "invoke"
  /\ LET text == Concat(ChatFragments(args[1]))
     IN  /\ completions_result' = text
         /\ chat_history' = add_assistant_message(chat_history, text)
         /\ answered' = Append(answered,
                               [query |-> query_term, completion |-> text])
  /\ susp' = Released(susp)
  /\ args' = <<>>
  /\ cpc' = "sleep"
  /\ UNCHANGED <<query_term, search_result, mode, cerr, searched, invoked,
                 printed, failed, asked>>
  /\ UNCHANGED <<ingestVars, result, once, imported, gen, held, orphaned>>

\* time.sleep(5) is over: `while query_term != "exit"` is evaluated, back to
\* input() or out of the loop.
SleepEnds(m) ==
  /\ mode = m /\ cpc = "sleep"
  /\ cpc' = IF query_term = "exit" THEN "idle" ELSE "input"
  /\ UNCHANGED <<chat_history, query_term, search_result, completions_result,
                 mode, cerr, searched, invoked, printed, answered, failed,
                 asked>>
  /\ UNCHANGED <<ingestVars, result, once, imported, args, gen, held, susp,
                 orphaned>>

StreamSleepEnds == SleepEnds("stream")

HistSleepEnds == SleepEnds("history")

\* The query of the single-query cell.
CellQuery == "What do you know about the godfather?"

\* The single-query cell starts: query_term = "What do you know about the
\* godfather?", then memory.search(collection_name, query_term) is awaited.
SearchCell ==
  /\ KernelFree
  /\ query_term' = CellQuery
  /\ cpc' = "cell_search"
  /\ cerr' = [cerr EXCEPT !["search_cell"] = "none"]
  /\ orphaned' = FALSE
  /\ UNCHANGED <<chat_history, search_result, completions_result, mode,
                 searched, invoked, printed, answered, failed, asked,
                 result, once>>
  /\ UNCHANGED <<ingestVars, imported, args, gen, held, susp>>

\* The search of the single-query cell returns: result is assigned.
SearchCellReturns ==
  /\ cpc = "cell_search"
  /\ result' \in SearchResults(store)
  /\ cpc' = "idle"
  /\ UNCHANGED <<chat_history, query_term, search_result, completions_result,
                 mode, cerr, searched, invoked, printed, answered, failed,
                 asked, once>>
  /\ UNCHANGED <<ingestVars, imported, args, gen, held, susp, orphaned>>

\* An await of a single cell raises (the service failed, or an exception is
\* thrown into the await): the cell ends and its assignment is not made.
CellRaises(c, at, e) ==
  /\ cpc = at
  /\ cpc' = "idle"
  /\ cerr' = Uncaught(c, e)
  /\ args' = <<>>
  /\ UNCHANGED <<chat_history, query_term, search_result, completions_result,
                 mode, searched, invoked, printed, answered, failed, asked,
                 result, once>>
  /\ UNCHANGED <<ingestVars, imported, gen, held, orphaned, susp>>

SearchCellFails ==
  \E e \in {"SearchError"} \cup Interrupts :
    CellRaises("search_cell", "cell_search", e)

\* The kernel.invoke cell starts: KernelArguments is imported, then
\* KernelArguments(query_term=query_term,
\* db_record=result[0].additional_metadata) is built, where a name no cell
\* has assigned raises NameError and result[0] raises IndexError on an empty
\* result, and kernel.invoke(chat_function, ...) is awaited.
InvokeCell ==
  /\ KernelFree
  /\ imported' = TRUE
  /\ orphaned' = FALSE
  /\ IF Unbound \in {query_term, result}
     THEN /\ cerr' = [cerr EXCEPT !["invoke_cell"] = "NameError"]
          /\ UNCHANGED <<cpc, args>>
     ELSE IF Len(result) = 0
     THEN /\ cerr' = [cerr EXCEPT !["invoke_cell"] = "IndexError"]
          /\ UNCHANGED <<cpc, args>>
     ELSE /\ cerr' = [cerr EXCEPT !["invoke_cell"] = "none"]
          /\ args' = <<KernelArguments(query_term, result)>>
          /\ cpc' = "cell_invoke"
  /\ UNCHANGED <<chat_history, query_term, search_result, completions_result,
                 mode, searched, invoked, printed, answered, failed, asked,
                 result, once>>
  /\ UNCHANGED <<ingestVars, gen, held, susp>>

\* kernel.invoke of the cell returns the chat service's whole text for the
\* arguments it was called with: completions_result is assigned.
InvokeCellReturns ==
  /\ cpc = "cell_invoke"
  /\ completions_result' = Concat(ChatFragments(args[1]))
  /\ once' = <<[args |-> args[1], text |-> Concat(ChatFragments(args[1]))]>>
  /\ susp' = Released(susp)
  /\ args' = <<>>
  /\ cpc' = "idle"
  /\ UNCHANGED <<chat_history, query_term, search_result, mode, cerr,
                 searched, invoked, printed, answered, failed, asked, result>>
  /\ UNCHANGED <<ingestVars, imported, gen, held, orphaned>>

InvokeCellFails ==
  \E e \in {"ChatServiceError"} \cup Interrupts :
    CellRaises("invoke_cell", "cell_invoke", e)

\* The kernel is interrupted while the code of the running cell is suspended
\* at one of the awaits `ats` and the event loop is waiting: KeyboardInterrupt
\* is raised in the event loop, not in the cell's code. The cell ends with
\* it; its coroutine stays suspended where it is, beside those left behind
\* before.
Detach(ats) ==
  /\ cpc \in ats /\ ~orphaned
  /\ Len(susp) < MaxDetached
  /\ susp' = Append(susp, Frame(FALSE))
  /\ cerr' = [cerr EXCEPT ![CellOf] = "KeyboardInterrupt"]
  /\ cpc' = "idle"
  /\ args' = <<>> /\ gen' = <<>> /\ held' = FALSE
  /\ UNCHANGED <<chat_history, query_term, search_result, completions_result,
                 mode, searched, invoked, printed, answered, failed, asked,
                 result, once>>
  /\ UNCHANGED <<ingestVars, imported, orphaned>>

StreamDetach == mode = "stream" /\ Detach({"search", "stream"})

HistDetach == mode = "history" /\ Detach({"search", "invoke"})

CellDetach == Detach({"cell_search", "cell_invoke"})

\* The suspended coroutines but the i-th.
Others(i) ==
  [j \in 1..(Len(susp) - 1) |-> IF j < i THEN susp[j] ELSE susp[j + 1]]

\* The event loop goes from the coroutine it ran, suspended at an await or
\* ended, to the i-th suspended one, whose awaited call has answered. The
\* event loop runs as long as the task of a cell with an await is not done:
\* a coroutine left behind goes on while the code of the running cell is at
\* an await, and also when a cell is started or has ended, whatever cell of
\* the notebook it is and before or after that cell's own code.
Switch(i) ==
  /\ i \in DOMAIN susp
  /\ cpc \in Awaits \cup {"idle"}
  /\ mode' = susp[i].mode
  /\ cpc' = susp[i].cpc
  /\ args' = susp[i].args
  /\ gen' = susp[i].gen
  /\ held' = susp[i].held
  /\ searched' = susp[i].searched
  /\ invoked' = susp[i].invoked
  /\ printed' = susp[i].printed
  /\ orphaned' = ~susp[i].cell
  /\ susp' = IF cpc = "idle" THEN Others(i)
             ELSE Append(Others(i), Frame(~orphaned))
  /\ UNCHANGED <<chat_history, query_term, search_result, completions_result,
                 cerr, answered, failed, asked, result, once>>
  /\ UNCHANGED <<ingestVars, imported>>

\* The task of the cell is done and the event loop stops: the coroutine left
\* behind that it ran stays suspended at its await until a cell runs the
\* event loop again.
LoopStops ==
  /\ orphaned /\ cpc \in Awaits
  /\ \A i \in DOMAIN susp : ~susp[i].cell
  /\ susp' = Append(susp, Frame(FALSE))
  /\ cpc' = "idle"
  /\ args' = <<>> /\ gen' = <<>> /\ held' = FALSE
  /\ orphaned' = FALSE
  /\ UNCHANGED <<chat_history, query_term, search_result, completions_result,
                 mode, cerr, searched, invoked, printed, answered, failed,
                 asked, result, once>>
  /\ UNCHANGED <<ingestVars, imported>>

----------------------------------------------------------------------------

IngestIdle ==
  /\ data = [p \in Procs |-> <<>>]
  /\ n = [p \in Procs |-> 0]
  /\ pc = [p \in Procs |-> "idle"]
  /\ already_created = [p \in Procs |-> FALSE]
  /\ err = [p \in Procs |-> "none"]
  /\ report = [p \in Procs |-> <<>>]
  /\ calls = [p \in Procs |-> <<>>]
  /\ lookups = [p \in Procs |-> <<>>]
  /\ changed = [p \in Procs |-> FALSE]
  /\ rerun = [p \in Procs |-> FirstRun]
  /\ detached = [p \in Procs |-> FALSE]

\* No chat cell is running and none was interrupted.
ChatQuiet ==
  /\ mode = "none"
  /\ cpc = "idle"
  /\ searched = FALSE
  /\ invoked = FALSE
  /\ printed = <<>>
  /\ answered = <<>>
  /\ failed = 0
  /\ asked = 0
  /\ args = <<>>
  /\ gen = <<>>
  /\ held = FALSE
  /\ susp = <<>>
  /\ orphaned = FALSE

\* Every cell has run but the chat cells followed here (the single-query
\* search and kernel.invoke, the loops and the cell that makes
\* chat_history): the names they assign are not bound and KernelArguments
\* is not imported.
ChatUnset ==
  /\ chat_history = Unbound
  /\ query_term = Unbound
  /\ search_result = Unbound
  /\ completions_result = Unbound
  /\ result = Unbound
  /\ once = <<>>
  /\ imported = FALSE
  /\ cerr = [m \in Loops \cup Cells |-> "none"]
  /\ ChatQuiet

\* The cells were run in order up to cell 25 without the streaming loop:
\* cell 13 has assigned query_term and result, cell 19 has imported
\* KernelArguments and, when result held a hit, assigned completions_result
\* (on an empty result it ended with IndexError), cell 25 has made
\* chat_history. search_result is not bound before a loop runs.
ChatIdle ==
  /\ chat_history = add_system_message(<<>>, SystemMessage)
  /\ query_term = CellQuery
  /\ result \in SearchResults(store)
  /\ search_result = Unbound
  /\ imported = TRUE
  /\ IF Len(result) = 0
     THEN /\ completions_result = Unbound
          /\ once = <<>>
          /\ cerr = [m \in Loops \cup Cells |->
                       IF m = "invoke_cell" THEN "IndexError" ELSE "none"]
     ELSE /\ completions_result =
               Concat(ChatFragments(KernelArguments(query_term, result)))
          /\ once = <<[args |-> KernelArguments(query_term, result),
                       text |-> completions_result]>>
          /\ cerr = [m \in Loops \cup Cells |-> "none"]
  /\ ChatQuiet

\* The collection is new and empty, the ingestion cell has not run.
Init == store = {} /\ IngestIdle /\ ChatUnset

\* One kernel runs the ingestion cell, again and again.
Next ==
  \/ Start(1, Batches(MaxBatch))
  \/ GetReturns(1)
  \/ GetFails(1)
  \/ EmbedReturns(1)
  \/ EmbedFails(1)
  \/ UpsertAcks(1)
  \/ UpsertFails(1)
  \/ Interrupted(1)
  \/ CellInterrupted(1)
  \/ Rerun(1)
  \/ Return(1)

Spec == Init /\ [][Next]_vars

\* The data files of two runs that are under way at the same time: records
\* of one id, in two versions.
ConcBatches ==
  UNION {[1..m -> {r \in Pool : r.id = "1"}] : m \in 0..MaxConcBatch}

\* Two runs of the ingestion cell are under way on the same collection, each
\* on any file, again and again: the runs of two kernels, or the run of a
\* cell that was interrupted and the run of the cell run after it.
NextConc ==
  \E p \in Procs :
    \/ Start(p, ConcBatches)
    \/ GetReturns(p)
    \/ GetFails(p)
    \/ EmbedReturns(p)
    \/ EmbedFails(p)
    \/ UpsertAcks(p)
    \/ UpsertFails(p)
    \/ Interrupted(p)
    \/ CellInterrupted(p)
    \/ Return(p)

SpecConc == Init /\ [][NextConc]_vars

\* The collections the chat loops are run on: what ingestion left there.
ChatStores ==
  {{Item(r) : r \in R} : R \in SUBSET {x \in Pool : x.id \in {"2", "3"}}}

InitChat == store \in ChatStores /\ IngestIdle /\ ChatIdle

\* The chat loops and cell 25 are run, one cell at a time and each to its
\* end, in any order: one conversation at a time on chat_history.
NextChat ==
  \/ NewHistory
  \/ StartStreamLoop
  \/ StartHistoryLoop
  \/ StreamEnterExit
  \/ HistEnterExit
  \/ \E q \in Queries : StreamEnter(q)
  \/ \E q \in Queries : HistEnter(q)
  \/ StreamInputFails
  \/ HistInputFails
  \/ StreamSearchReturns
  \/ HistSearchReturns
  \/ StreamSearchFails
  \/ HistSearchFails
  \/ StreamNext
  \/ StreamEnds
  \/ StreamFails
  \/ StreamCancel
  \/ StreamSleepEnds
  \/ HistInvokeReturns
  \/ HistInvokeFails
  \/ HistCancel
  \/ HistSleepEnds

SpecChat == InitChat /\ [][NextChat]_vars

\* The kernel after the ingestion: none of the chat cells followed here has
\* run, or the cells were run in order.
InitAnswer == store \in ChatStores /\ IngestIdle /\ (ChatUnset \/ ChatIdle)

\* Sections 8 to 10 of the notebook, before the history is added: the
\* single-query cells and the streaming loop are run, one cell at a time
\* and each to its end, in any order.
NextAnswer ==
  \/ SearchCell
  \/ SearchCellReturns
  \/ SearchCellFails
  \/ InvokeCell
  \/ InvokeCellReturns
  \/ InvokeCellFails
  \/ StartStreamLoop
  \/ StreamEnterExit
  \/ \E q \in Queries \cup {CellQuery} : StreamEnter(q)
  \/ StreamInputFails
  \/ StreamSearchReturns
  \/ StreamSearchFails
  \/ StreamNext
  \/ StreamEnds
  \/ StreamFails
  \/ StreamCancel
  \/ StreamSleepEnds

SpecAnswer == InitAnswer /\ [][NextAnswer]_vars

\* The collection the cells are run on when interrupts of the event loop
\* are followed: one item.
KernelStores == {{Item(r)} : r \in {x \in Pool : x.id = "2"}}

InitKernel == store \in KernelStores /\ IngestIdle /\ ChatIdle

\* The loops and the single-query search are run in any order on one
\* chat_history, and a cell may be ended by an interrupt of the event loop:
\* the coroutine of that cell goes on whenever the event loop runs again.
NextKernel ==
  \/ StartStreamLoop
  \/ StartHistoryLoop
  \/ StreamEnterExit
  \/ HistEnterExit
  \/ asked < MaxKernelQueries /\ StreamEnter("Hey")
  \/ asked < MaxKernelQueries /\ HistEnter("Hey")
  \/ StreamInputFails
  \/ HistInputFails
  \/ StreamSearchReturns
  \/ HistSearchReturns
  \/ StreamSearchFails
  \/ HistSearchFails
  \/ StreamNext
  \/ StreamEnds
  \/ StreamFails
  \/ StreamCancel
  \/ StreamSleepEnds
  \/ HistInvokeReturns
  \/ HistInvokeFails
  \/ HistCancel
  \/ HistSleepEnds
  \/ SearchCell
  \/ SearchCellReturns
  \/ SearchCellFails
  \/ StreamDetach
  \/ HistDetach
  \/ CellDetach
  \/ \E i \in DOMAIN susp : Switch(i)
  \/ LoopStops

SpecKernel == InitKernel /\ [][NextKernel]_vars

----------------------------------------------------------------------------
(* Ingestion: what the claims speak of *)

\* The number of calls `op` the run of p issued for the record at position k.
NumCalls(p, op, k) ==
  Cardinality({i \in DOMAIN calls[p] : calls[p][i] = Call(op, k)})

\* The positions the run of p reported with the given outcome.
Reported(p, kind) ==
  {i \in DOMAIN report[p] : report[p][i].outcome = kind}

\* No embedding call and no write was issued by the run of p.
NoSaveCalls(p) ==
  \A i \in DOMAIN calls[p] : calls[p][i].op = "get"

\* No lookup of the run of p raised a store-side error.
NoLookupError(p) ==
  \A i \in DOMAIN lookups[p] : lookups[p][i].outcome # "error"

\* The second of two runs on the same data created nothing, skipped every
\* record, issued no embedding call and no write, and no write changed the
\* collection (only the run writes to it).
SecondRunIsNoOp ==
  /\ Reported(1, "created") = {}
  /\ Reported(1, "skipped") = DOMAIN data[1]
  /\ NoSaveCalls(1)
  /\ ~changed[1]

\* The record at position k of the run of p has been handled to the end.
Handled(p, k) == k < n[p] \/ (k = n[p] /\ pc[p] = "done")

\* The run before the run of p handled every record of the data: it ran to
\* its end.
FirstRunCompleted(p) == rerun[p].handled = Len(data[p])

\* C1 as stated: whenever a run on the data of the completed run before it
\* completes, it created 0 records, skipped all N, made no embedding call and
\* no store write, and the collection is what it was after the first run.
C1_Original ==
  (rerun[1].again /\ FirstRunCompleted(1) /\ pc[1] = "done") => SecondRunIsNoOp

\* C1 amended, for a run on the data of the run before it: a record the first
\* run handled is still stored when it is looked up, so its lookup returns
\* the item or raises; a record whose lookup returned the item is skipped, no
\* embedding call and no write being issued for it; a record whose lookup
\* did not return the item gets one embedding call and, once handled, one
\* write and the outcome created; without a write the collection is as the
\* first run left it; and when the first run ran to its end and no lookup
\* raised, the completed run created 0 records, skipped all N, issued no
\* embedding call and no write, and left the collection identical.
C1_SecondRunSkipsStoredRecords ==
  rerun[1].again =>
    /\ \A k \in DOMAIN lookups[1] :
         /\ k <= rerun[1].handled =>
              (lookups[1][k].present /\ lookups[1][k].outcome # "notfound")
         /\ lookups[1][k].outcome = "found" =>
              /\ NumCalls(1, "embed", k) = 0 /\ NumCalls(1, "upsert", k) = 0
              /\ Handled(1, k) => report[1][k].outcome = "skipped"
         /\ lookups[1][k].outcome # "found" =>
              /\ NumCalls(1, "embed", k) = 1
              /\ Handled(1, k) =>
                   /\ NumCalls(1, "upsert", k) = 1
                   /\ report[1][k].outcome = "created"
    /\ NoSaveCalls(1) => (~changed[1] /\ Reported(1, "created") = {})
    /\ (pc[1] = "done" /\ FirstRunCompleted(1) /\ NoLookupError(1)) =>
         SecondRunIsNoOp

\* A second run on three records the first run had handled to the end: the
\* lookup of record 2 raised and the record was created again, records 1 and
\* 3 were found and skipped.
C1_Witness ==
  /\ rerun[1].again /\ FirstRunCompleted(1) /\ pc[1] = "done"
  /\ Len(data[1]) = 3
  /\ lookups[1][1].outcome = "found" /\ lookups[1][2].outcome = "error"
  /\ lookups[1][3].outcome = "found"
  /\ report[1] = <<Printed("skipped", 1, 3), Printed("created", 2, 3),
                   Printed("skipped", 3, 3)>>

\* C2 as stated: a record is embedded exactly once when its id had no item
\* at the time of its lookup and never when it had one, and every record
\* whose id had an item is reported skipped.
C2_Original ==
  \A k \in DOMAIN lookups[1] :
    /\ NumCalls(1, "embed", k) = (IF lookups[1][k].present THEN 0 ELSE 1)
    /\ lookups[1][k].present =>
         (k \in DOMAIN report[1] /\ report[1][k].outcome = "skipped")

\* C2 amended: a record is embedded exactly once when its lookup did not
\* return an item (the id is absent, or the lookup raised) and never when the
\* lookup returned the item; every record whose lookup returned the item is
\* reported skipped.
C2_DedupByLookupResult ==
  \A k \in DOMAIN lookups[1] :
    /\ NumCalls(1, "embed", k) =
         (IF lookups[1][k].outcome = "found" THEN 0 ELSE 1)
    /\ lookups[1][k].outcome = "found" =>
         (k \in DOMAIN report[1] /\ report[1][k].outcome = "skipped")

\* Three records, the second one's id already stored: two embedding calls,
\* for #1 and #3, and #2 skipped.
C2_Witness ==
  /\ pc[1] = "done" /\ Len(data[1]) = 3
  /\ ~lookups[1][1].present /\ lookups[1][2].outcome = "found"
  /\ ~lookups[1][3].present
  /\ NumCalls(1, "embed", 1) = 1 /\ NumCalls(1, "embed", 2) = 0
  /\ NumCalls(1, "embed", 3) = 1
  /\ report[1][2].outcome = "skipped"

\* C3: a record whose lookup failed (the id is not there, or the store raised
\* an error) is treated as one whose id is absent: an embedding call is
\* issued for it, and when that and the write succeed it is written and
\* reported created; no failure of a lookup ends the function: when it has
\* ended with an exception, that is an interrupt of the call it was
\* suspended at, or the error of an embedding call or a write.
C3_FailOpenLookup ==
  /\ \A k \in DOMAIN lookups[1] :
       lookups[1][k].outcome \in {"error", "notfound"} =>
         /\ NumCalls(1, "embed", k) = 1
         /\ Handled(1, k) =>
              /\ NumCalls(1, "upsert", k) = 1
              /\ k \in DOMAIN report[1] /\ report[1][k].outcome = "created"
  /\ pc[1] = "failed" =>
       \/ err[1] \in Interrupts
       \/ /\ err[1] \in {"EmbeddingServiceError", "StoreWriteError"}
          /\ calls[1][Len(calls[1])].op \in {"embed", "upsert"}
  /\ pc[1] \in {"get", "embed", "upsert"} => Len(lookups[1]) \in {n[1] - 1, n[1]}

\* The lookup of record 1 raised although its id was stored, and the run
\* went on to handle every later record.
C3_Witness ==
  /\ pc[1] = "done" /\ Len(data[1]) >= 2
  /\ lookups[1][1].outcome = "error" /\ lookups[1][1].present
  /\ report[1][1].outcome = "created"
  /\ Len(report[1]) = Len(data[1])

\* C5 as stated: an item, once stored, is never changed by a later step.
C5_Original ==
  [][\A it \in store : it \in store']_vars

\* C5 amended: the collection changes only by the write of the record the
\* run is at, and that write replaces a stored item only when the lookup of
\* that record raised; a record whose lookup returned the item is not
\* written, whatever title and content it carries.
C5_NoWriteUnlessLookupFailed ==
  [][store' # store =>
       LET rec == data[1][n[1]]
       IN  /\ pc[1] = "upsert"
           /\ store' = StoreUpsert(store, Item(rec))
           /\ lookups[1][n[1]].outcome # "found"
           /\ HasId(store, rec.id) => lookups[1][n[1]].outcome = "error"]_vars

\* A record whose id is stored with another text was looked up, found and
\* skipped: the stored item is as it was.
C5_Witness ==
  /\ pc[1] = "done"
  /\ \E k \in DOMAIN data[1] :
       /\ lookups[1][k].outcome = "found"
       /\ report[1][k].outcome = "skipped"
       /\ \E it \in store : it.id = data[1][k].id /\ it.text # data[1][k].content
  /\ ~changed[1]

\* The record of the run of p that was written last under the given id, as
\* a set (empty when the run wrote none).
LastWritten(p, id) ==
  LET ks == {k \in Reported(p, "created") : data[p][k].id = id}
  IN  {data[p][k] : k \in {j \in ks : \A i \in ks : i <= j}}

\* C6 as stated: after a run that completed, every record of the data has an
\* item with its id, its content as text and its title as description.
C6_Original ==
  pc[1] = "done" =>
    \A k \in DOMAIN data[1] :
      \E it \in store :
        /\ it.id = data[1][k].id
        /\ it.text = data[1][k].content
        /\ it.description = data[1][k].title

\* C6 amended: after a run that completed, every id of the data has exactly
\* one item; the item of an id the run wrote holds the last record written
\* under that id (text = content, description = title); an id the run did
\* not write had every record skipped, and its item need not match them.
C6_ConvergesOnWrittenIds ==
  pc[1] = "done" =>
    \A k \in DOMAIN data[1] :
      LET id == data[1][k].id
      IN  /\ Cardinality(ItemsOf(store, id)) = 1
          /\ IF LastWritten(1, id) # {}
             THEN \A it \in ItemsOf(store, id) : \A r \in LastWritten(1, id) :
                    it.text = r.content /\ it.description = r.title
             ELSE \E j \in Reported(1, "skipped") : data[1][j].id = id

\* A completed run that wrote one record and skipped another whose stored
\* text differs from the record's content.
C6_Witness ==
  /\ pc[1] = "done"
  /\ Reported(1, "created") # {}
  /\ \E k \in Reported(1, "skipped") :
       \E it \in store : it.id = data[1][k].id /\ it.text # data[1][k].content
  /\ \E k \in Reported(1, "created") :
       \E it \in store : it.id = data[1][k].id /\ it.text = data[1][k].content
                           /\ it.description = data[1][k].title

\* C7: when the embedding call or the write of record i has failed (or a
\* call of record i was interrupted), the
\* function has ended with that exception, the failed call is the last call
\* it issued, no call was issued for a record after i, record i is not
\* reported, and every record reported created before i still has the item
\* of the last write under its id; only a write of record i under the same
\* id that was interrupted after it was issued may have put the item of
\* record i there instead.
C7_HardStop ==
  err[1] # "none" =>
    /\ pc[1] = "failed"
    /\ calls[1][Len(calls[1])].n = n[1]
    /\ err[1] = "EmbeddingServiceError" => calls[1][Len(calls[1])].op = "embed"
    /\ err[1] = "StoreWriteError" => calls[1][Len(calls[1])].op = "upsert"
    /\ \A i \in DOMAIN calls[1] : calls[1][i].n <= n[1]
    /\ Len(report[1]) = n[1] - 1
    /\ \A k \in Reported(1, "created") :
         \/ ItemsOf(store, data[1][k].id) =
              {Item(r) : r \in LastWritten(1, data[1][k].id)}
         \/ /\ err[1] \in Interrupts
            /\ calls[1][Len(calls[1])].op = "upsert"
            /\ data[1][n[1]].id = data[1][k].id
            /\ ItemsOf(store, data[1][k].id) = {Item(data[1][n[1]])}

\* The run failed at record 2 of 3 after it created record 1.
C7_Witness ==
  /\ pc[1] = "failed" /\ n[1] = 2 /\ Len(data[1]) = 3
  /\ err[1] = "EmbeddingServiceError"
  /\ report[1][1].outcome = "created"
  /\ HasId(store, data[1][1].id)

----------------------------------------------------------------------------
(* The chat loops: what the claims speak of *)

\* An answer call on chat_history is under way.
InAnswer == mode = "history" /\ cpc \in {"search", "invoke"}

IsAssistant(m) == m.role = "assistant"

IsUser(m) == m.role = "user"

\* After the system entry: user, assistant, user, assistant, ..., the i-th
\* pair holding the i-th query and the i-th answer.
Alternates ==
  /\ chat_history[1] = Message("system", SystemMessage)
  /\ \A i \in DOMAIN answered :
       /\ chat_history[2 * i] = Message("user", answered[i].query)
       /\ chat_history[2 * i + 1] = Message("assistant", answered[i].completion)

\* C8 as stated: after N successful answer calls the transcript has exactly
\* 2N + 1 entries (the system message is set) and, after the system entry,
\* alternates user, assistant, with the i-th query and the i-th answer.
C8_Original ==
  ~InAnswer =>
    /\ Len(chat_history) = 2 * Len(answered) + 1
    /\ Alternates

\* C8 amended: after N successful and F failed answer calls the transcript
\* has exactly 2N + F + 1 entries: the system entry, one user entry per call
\* and one assistant entry per successful call; the assistant entries hold
\* the answers in order, each right after the user entry of its query; when
\* no call has failed the entries alternate user, assistant as stated.
C8_HistoryCountsFailedCalls ==
  ~InAnswer =>
    /\ Len(chat_history) = 2 * Len(answered) + failed + 1
    /\ chat_history[1] = Message("system", SystemMessage)
    /\ Len(SelectSeq(chat_history, IsUser)) = Len(answered) + failed
    /\ SelectSeq(chat_history, IsAssistant) =
         [i \in DOMAIN answered |-> Message("assistant", answered[i].completion)]
    /\ \A j \in DOMAIN chat_history :
         IsAssistant(chat_history[j]) =>
           chat_history[j - 1] =
             Message("user",
               answered[Len(SelectSeq(SubSeq(chat_history, 1, j), IsAssistant))].query)
    /\ failed = 0 => Alternates

\* Two answers and one failed call on the same history.
C8_Witness ==
  /\ ~InAnswer
  /\ Len(answered) = 2 /\ failed = 1
  /\ Len(chat_history) = 6
  /\ chat_history[6].role = "assistant"

\* C9: when memory.search has returned an empty list for the query, the
\* loop's cell has ended with the IndexError of search_result[0], an error
\* no other failure gives, and the chat service was not invoked for that
\* query; the chat service is invoked only with a search result at hand.
C9_NoGrounding ==
  /\ (searched /\ Len(search_result) = 0) =>
       /\ cpc = "idle"
       /\ cerr[mode] = "IndexError"
       /\ ~invoked
  /\ (cpc = "idle" /\ mode \in Loops /\ cerr[mode] = "IndexError") =>
       (searched /\ Len(search_result) = 0 /\ ~invoked)
  /\ invoked => (searched /\ Len(search_result) = 1)

\* Both loops were run on an empty collection and ended with the IndexError.
C9_Witness ==
  /\ store = {}
  /\ cerr["stream"] = "IndexError" /\ cerr["history"] = "IndexError"
  /\ cpc = "idle" /\ searched /\ ~invoked

\* The last entry of the history is the user entry of the query read last.
LastIsQuery ==
  chat_history[Len(chat_history)] = Message("user", query_term)

\* The last answer call on chat_history failed in the search or in the chat
\* service, and the history was not made anew since.
AnswerFailed ==
  /\ mode = "history" /\ cpc = "idle" /\ failed > 0
  /\ cerr["history"] \in {"SearchError", "IndexError", "ChatServiceError"}

\* C12: in the loop with history, while the similarity search for a query is
\* awaited its result has not come and the user entry of that query is
\* already the last entry of the history; the entry is there whatever
\* happens next: while the chat service is awaited, and after the search or
\* the chat service has failed.
C12_UserEntryPrecedesSearch ==
  /\ (mode = "history" /\ cpc = "search") => (~searched /\ LastIsQuery)
  /\ (mode = "history" /\ cpc = "invoke") => (searched /\ LastIsQuery)
  /\ AnswerFailed => LastIsQuery

\* The search for the second query is awaited: the history already ends with
\* that query, after the first query and its answer.
C12_Witness ==
  /\ mode = "history" /\ cpc = "search" /\ ~searched
  /\ Len(answered) = 1 /\ Len(chat_history) = 4
  /\ chat_history[3].role = "assistant"
  /\ LastIsQuery

\* The positions of the data of p, looked up so far, that carry the id.
LookedUp(p, id) == {k \in DOMAIN lookups[p] : data[p][k].id = id}

\* The number of calls `op` the run of p issued for records carrying the id.
NumCallsForId(p, op, id) ==
  Cardinality({i \in DOMAIN calls[p] :
                 calls[p][i].op = op /\ data[p][calls[p][i].n].id = id})

\* C13: in a run with no lookup error, for an id that occurs in the data and
\* had no item when its first occurrence was looked up: the first occurrence
\* is embedded and, once handled, reported created; every later occurrence
\* looked up found the item and, once handled, is reported skipped; at most
\* one embedding call and one write are issued for the id, and exactly one of
\* each when the run has completed.
C13_DuplicateIdsOneWrite ==
  NoLookupError(1) =>
    \A id \in Ids :
      \A f \in LookedUp(1, id) :
        ((\A k \in LookedUp(1, id) : f <= k) /\ ~lookups[1][f].present) =>
          /\ Handled(1, f) => report[1][f].outcome = "created"
          /\ \A k \in LookedUp(1, id) \ {f} :
               /\ lookups[1][k].outcome = "found"
               /\ Handled(1, k) => report[1][k].outcome = "skipped"
          /\ NumCallsForId(1, "embed", id) = 1
          /\ NumCallsForId(1, "upsert", id) <= 1
          /\ pc[1] = "done" => NumCallsForId(1, "upsert", id) = 1

\* A completed run on three records of the same id, in two versions, the id
\* not stored before: one created, two skipped.
C13_Witness ==
  /\ pc[1] = "done" /\ NoLookupError(1) /\ Len(data[1]) = 3
  /\ data[1][1].id = data[1][2].id /\ data[1][2].id = data[1][3].id
  /\ data[1][1] # data[1][2]
  /\ ~lookups[1][1].present
  /\ Reported(1, "created") = {1} /\ Reported(1, "skipped") = {2, 3}
  /\ NumCallsForId(1, "embed", data[1][1].id) = 1

\* The run of p is suspended at an external call.
InFlight(p) == pc[p] \in {"get", "embed", "upsert"}

\* The i-th call the run of p issued has completed: a lookup when its
\* outcome is known, an embedding call when the write followed it, a write
\* when its record is reported created; and any of them when it is the last
\* call and its error, or an interrupt, ended the run.
Completed(p, i) ==
  LET c == calls[p][i]
      last == i = Len(calls[p])
  IN  CASE c.op = "get" ->
             \/ c.n \in DOMAIN lookups[p]
             \/ last /\ pc[p] = "failed" /\ err[p] \in Interrupts
        [] c.op = "embed" ->
             \/ ~last /\ calls[p][i + 1] = Call("upsert", c.n)
             \/ last /\ pc[p] = "failed"
                  /\ err[p] \in {"EmbeddingServiceError"} \cup Interrupts
        [] c.op = "upsert" ->
             \/ c.n \in DOMAIN report[p] /\ report[p][c.n].outcome = "created"
             \/ last /\ pc[p] = "failed"
                  /\ err[p] \in {"StoreWriteError"} \cup Interrupts

\* C14: the calls of a run never overlap: every call but the last one issued
\* has completed, and the last one is the call the run is suspended at, if
\* any; the first call is the lookup of record 1; an embedding call comes
\* right after the lookup of its record, which has completed without finding
\* the item; a write comes right after the embedding call of its record; the
\* lookup of record i+1 comes right after the last call of record i.
C14_SequentialCalls ==
  /\ \A i \in DOMAIN calls[1] :
       /\ i < Len(calls[1]) => Completed(1, i)
       /\ LET c == calls[1][i]
          IN  CASE c.op = "get" ->
                     IF i = 1 THEN c.n = 1
                     ELSE /\ calls[1][i - 1].n = c.n - 1
                          /\ calls[1][i - 1].op \in {"get", "upsert"}
                [] c.op = "embed" ->
                     /\ i > 1 /\ calls[1][i - 1] = Call("get", c.n)
                     /\ c.n \in DOMAIN lookups[1]
                     /\ lookups[1][c.n].outcome # "found"
                [] c.op = "upsert" ->
                     i > 1 /\ calls[1][i - 1] = Call("embed", c.n)
  /\ IF InFlight(1)
     THEN /\ calls[1] # <<>>
          /\ calls[1][Len(calls[1])] = Call(pc[1], n[1])
          /\ ~Completed(1, Len(calls[1]))
     ELSE calls[1] # <<>> => Completed(1, Len(calls[1]))

\* The lookup of record 3 is awaited after record 1 was looked up, embedded
\* and written and record 2 was looked up and skipped.
C14_Witness ==
  /\ pc[1] = "get" /\ n[1] = 3
  /\ calls[1] = <<Call("get", 1), Call("embed", 1), Call("upsert", 1),
                  Call("get", 2), Call("get", 3)>>
  /\ Len(report[1]) = 2

\* C15: the run has printed one outcome for each record handled to the end
\* and none for the others; the outcome of the record at position k carries
\* the index k and the total len(data); it is "created" exactly when the
\* embedding call and the write were made for the record, and then the item
\* is stored, and "skipped" exactly when its lookup returned an item, and
\* then no embedding call or write was made for it; when the run has
\* completed, created + skipped = len(data); on an empty data file nothing is
\* printed and no call is issued.
C15_OneOutcomePerRecord ==
  /\ \A k \in DOMAIN data[1] : Handled(1, k) <=> k \in DOMAIN report[1]
  /\ DOMAIN report[1] \subseteq DOMAIN data[1]
  /\ \A k \in DOMAIN report[1] :
       /\ report[1][k].n = k
       /\ report[1][k].total = Len(data[1])
       /\ report[1][k].outcome \in {"created", "skipped"}
       /\ report[1][k].outcome = "created" <=>
            (NumCalls(1, "embed", k) = 1 /\ NumCalls(1, "upsert", k) = 1)
       /\ report[1][k].outcome = "created" => HasId(store, data[1][k].id)
       /\ report[1][k].outcome = "skipped" <=> lookups[1][k].outcome = "found"
       /\ report[1][k].outcome = "skipped" =>
            (NumCalls(1, "embed", k) = 0 /\ NumCalls(1, "upsert", k) = 0)
  /\ pc[1] = "done" =>
       Cardinality(Reported(1, "created")) + Cardinality(Reported(1, "skipped"))
         = Len(data[1])
  /\ data[1] = <<>> => (report[1] = <<>> /\ calls[1] = <<>>)

\* A completed run on three records: the first and the last created, the
\* second skipped, each printed with its position out of 3.
C15_Witness ==
  /\ pc[1] = "done" /\ Len(data[1]) = 3
  /\ report[1] = <<Printed("created", 1, 3), Printed("skipped", 2, 3),
                   Printed("created", 3, 3)>>

\* A chat loop has ended: its cell is over.
LoopOver == mode \in Loops /\ cpc = "idle"

\* The chat service is awaited: kernel.invoke, or the fragment stream.
Generating == cpc \in {"invoke", "stream"}

\* C16 as stated: a loop that has ended has read "exit".
C16_Original ==
  LoopOver => query_term = "exit"

\* C16 amended, step by step: a query is awaited after the loop started or
\* after the sleep that follows an answer; reading a query other than "exit"
\* issues its search and nothing else; reading "exit" ends the loop with no
\* search, no invocation and no history append, and so does an interrupt or
\* an end of input of the read; the search is issued only by reading a query
\* and is followed by the one invocation of the chat service, or by the
\* exception that ends the loop with no invocation; the invocation is
\* followed by the sleep and the next read, or by the exception that ends
\* the loop; the loop ends in no other way than on "exit" or by an exception.
C16_SessionSteps ==
  [][/\ (cpc = "input" /\ cpc' # "input") =>
          \/ /\ cpc' = "search" /\ query_term' # "exit"
             /\ ~searched' /\ ~invoked'
          \/ /\ cpc' = "idle"
             /\ \/ query_term' = "exit" /\ cerr'[mode'] = "none"
                \/ /\ query_term' = query_term
                   /\ cerr'[mode'] \in {"KeyboardInterrupt", "EOFError"}
             /\ chat_history' = chat_history
             /\ searched' = searched /\ invoked' = invoked
             /\ search_result' = search_result
             /\ completions_result' = completions_result
     /\ (cpc' = "search" /\ cpc # "search") => cpc = "input"
     /\ (cpc = "search" /\ cpc' # "search") =>
          \/ Generating' /\ searched' /\ invoked'
          \/ cpc' = "idle" /\ cerr'[mode'] # "none" /\ ~invoked'
     /\ (Generating' /\ ~Generating) => cpc = "search"
     /\ (Generating /\ ~Generating') =>
          \/ cpc' = "sleep" /\ searched /\ invoked
          \/ cpc' = "idle" /\ cerr'[mode'] # "none"
     /\ (cpc' = "sleep" /\ cpc # "sleep") => Generating
     /\ (cpc = "sleep" /\ cpc' # "sleep") =>
          \/ cpc' = "input"
          \/ cpc' = "idle" /\ cerr'[mode'] = "KeyboardInterrupt"
     /\ (cpc' = "input" /\ cpc # "input") => cpc \in {"idle", "sleep"}
     /\ (cpc' = "idle" /\ cpc # "idle") =>
          (query_term' = "exit" \/ cerr'[mode'] # "none")]_vars

\* The loop with history answered one query and then read "exit": it ended
\* without an exception, the history holding the one query and its answer.
C16_Witness ==
  /\ mode = "history" /\ cpc = "idle" /\ query_term = "exit"
  /\ cerr["history"] = "none"
  /\ searched /\ invoked
  /\ Len(answered) = 1 /\ Len(chat_history) = 3

\* C17: an answer call on chat_history starts by appending the user entry of
\* its query to the history as it was; while the call is under way the
\* history does not change; when the call ends with an exception (the search
\* failed or returned nothing, or the chat service failed) the history is
\* what it was during the call: the history before the call followed by the
\* one user entry of the query, with no assistant entry added and nothing
\* before it removed or changed.
C17_FailedAnswerLeavesUserEntry ==
  [][/\ (mode' = "history" /\ cpc = "input" /\ cpc' = "search") =>
          chat_history' = Append(chat_history, Message("user", query_term'))
     /\ (InAnswer /\ InAnswer') => chat_history' = chat_history
     /\ (InAnswer /\ cpc' = "idle") =>
          /\ chat_history' = chat_history
          /\ LastIsQuery'
          /\ cerr'["history"] # "none"
          /\ failed' = failed + 1
          /\ answered' = answered]_vars

\* After one answered query, the chat service failed on the second: the
\* history is the system entry, the first query, its answer and the second
\* query.
C17_Witness ==
  /\ AnswerFailed /\ cerr["history"] = "ChatServiceError"
  /\ Len(answered) = 1 /\ failed = 1
  /\ Len(chat_history) = 4
  /\ chat_history[2].role = "user" /\ chat_history[3].role = "assistant"
  /\ chat_history[4] = Message("user", query_term)

====
